---- MODULE Spec2Model ----
(***************************************************************************)
(* The workflow execution engine of the PDF toolkit: the controller        *)
(* (executeWorkflow, stopExecution, retryFromFailedNode,                   *)
(* clearWorkflowState) of the workflow editor component, with the          *)
(* scheduler, the input resolver and the node processors it calls.         *)
(*                                                                         *)
(* JavaScript runs one handler at a time: a handler runs until it awaits.  *)
(* Each action below is one such uninterrupted stretch of a handler.  A    *)
(* stretch that ends at a flushSync (a synchronous render) and continues   *)
(* without awaiting leaves `sync` set to the run that continues, and no    *)
(* other handler runs until `sync` is 0 again.                             *)
(***************************************************************************)
EXTENDS Integers, Sequences, FiniteSets, TLC

\* ------------------------------------------------------------------ bounds
MaxNodes == 3
MaxEdges == 2
MaxFiles == 2
MaxRuns == 2
MaxBlobs == 2
\* The length of the long workflow.
LongOrder == 200
\* The longest of the short file names.
MaxLen == 5
\* The operations a user starts on a tool.
MaxOps == 3

\* ----------------------------------------------------------------- helpers
None == <<>>
Some(x) == <<x>>
IsSome(o) == o # <<>>
Get(o) == o[1]

Range(s) == { s[k] : k \in DOMAIN s }
Min(S) == CHOOSE x \in S : \A y \in S : x <= y
IndexOf(s, x) == IF x \in Range(s) THEN Min({ k \in DOMAIN s : s[k] = x }) ELSE 0
Includes(msg, tok) == \E k \in DOMAIN msg : msg[k] = tok
Slice(s, from) == SubSeq(s, from, Len(s))

\* Math.round(x / n * 100) for integers x >= 0, n > 0: the nearest integer,
\* halves up.
RoundPercent(x, n) == (200 * x + n) \div (2 * n)
MathMin(a, b) == IF a <= b THEN a ELSE b

\* ------------------------------------------------------------ the graph
NodeIds == 1..MaxNodes
RunIds == 1..MaxRuns

\* The graphs the editor may have built: nodes 1..n in insertion order, and a
\* list of distinct edges <<source, target>> in insertion order.
EdgeLists(n) ==
    UNION { { es \in [1..k -> (1..n) \X (1..n)] :
                \A a, b \in 1..k : a # b => es[a] # es[b] } : k \in 0..MaxEdges }

\* A user file (File) and a tagged processor output (WorkflowOutputFile).  The
\* payload names the blob: the run and node whose processor produced it and
\* its index, or run 0, node 0 for the k-th user file.
Payload(run, node, idx) == [run |-> run, node |-> node, idx |-> idx]
Filename(base, of, idx) == [base |-> base, of |-> of, idx |-> idx]
UserFile(k) == [kind |-> "File", blob |-> Payload(0, 0, k), filename |-> Filename("name", 0, k)]
OutputFile(blob, filename) == [kind |-> "WorkflowOutputFile", blob |-> blob, filename |-> filename]

\* The file sets a user can select: the first k files, k <= MaxFiles.
FileSets == { [k \in 1..n |-> UserFile(k)] : n \in 0..MaxFiles }

\* ToolNodeData as the controller uses it.
NewNode(id) ==
    [id |-> id, toolId |-> id, settings |-> <<>>,
     status |-> "idle", progress |-> 0, error |-> None,
     inputFiles |-> None, outputFiles |-> None]

IdleState ==
    [status |-> "idle", currentNodeId |-> 0, executedNodes |-> <<>>,
     pendingNodes |-> <<>>, progress |-> 0, startTime |-> FALSE,
     endTime |-> FALSE, outputFiles |-> None, error |-> None]

Ids(nds) == [k \in DOMAIN nds |-> nds[k].id]

\* ------------------------------------------------------------- scheduler
\* Kahn's algorithm; among the nodes whose sources are all ordered, the first
\* in insertion order is next.
\* One iteration: the next node is appended, or nothing is left to append.
KahnStep(ns, es, done) ==
    LET eligible == { k \in DOMAIN ns :
                        /\ ns[k] \notin Range(done)
                        /\ \A j \in DOMAIN es :
                             es[j][2] = ns[k] => es[j][1] \in Range(done) }
    IN  IF eligible = {} THEN done
        ELSE Append(done, ns[Min(eligible)])

\* k iterations, one after the other (the first half of them, then the rest);
\* once an iteration has appended nothing, the loop is over.
RECURSIVE KahnSteps(_, _, _, _)
KahnSteps(ns, es, done, k) ==
    IF k = 0 THEN done
    ELSE IF k = 1 THEN KahnStep(ns, es, done)
    ELSE LET half == KahnSteps(ns, es, done, k \div 2)
         IN  IF Len(half) < Len(done) + (k \div 2) THEN half
             ELSE KahnSteps(ns, es, half, k - (k \div 2))

\* The iterations end when nothing is left to append: after one per node at
\* most.
Kahn(ns, es, done) == KahnSteps(ns, es, done, Len(ns))

\* The order, or None (null) when the graph has a cycle.
topologicalSort(ns, es) ==
    LET order == Kahn(ns, es, <<>>)
    IN  IF Len(order) = Len(ns) THEN Some(order) ELSE None

findInputNodes(ns, es) ==
    LET NoIncoming(n) == \A j \in DOMAIN es : es[j][2] # n
    IN  SelectSeq(ns, NoIncoming)

\* The outputs recorded for the sources of nodeId's incoming edges, in edge
\* order.
RECURSIVE CollectFrom(_, _, _, _)
CollectFrom(nodeId, es, nodeOutputs, j) ==
    IF j > Len(es) THEN <<>>
    ELSE (IF es[j][2] = nodeId /\ es[j][1] \in DOMAIN nodeOutputs
                /\ IsSome(nodeOutputs[es[j][1]])
          THEN Get(nodeOutputs[es[j][1]]) ELSE <<>>)
         \o CollectFrom(nodeId, es, nodeOutputs, j + 1)

collectInputFiles(nodeId, ns, es, nodeOutputs) == CollectFrom(nodeId, es, nodeOutputs, 1)

\* ------------------------------------------------------------ processors
\* What executeNode can answer for one call: a failure with an error object
\* (or none), a success with no result, with one blob (with or without a
\* filename) or with an array of 0..MaxBlobs plain blobs.
NoErrorObject == [message |-> None, code |-> None, details |-> None, suggestedAction |-> None]
FailErrors ==
    { NoErrorObject,
      [message |-> Some(<<"Operation", "cancelled by user">>), code |-> None,
       details |-> None, suggestedAction |-> None],
      [message |-> Some(<<"bad pdf">>), code |-> Some("E42"),
       details |-> Some("details"), suggestedAction |-> Some("action")] }

Result(success, result, count, filename, error) ==
    [success |-> success, result |-> result, count |-> count,
     filename |-> filename, error |-> error]

ProcessorResults ==
    { Result(FALSE, "none", 0, FALSE, e) : e \in FailErrors }
    \cup { Result(TRUE, "none", 0, FALSE, NoErrorObject) }
    \cup { Result(TRUE, "blob", 1, fn, NoErrorObject) : fn \in BOOLEAN }
    \cup { Result(TRUE, "array", c, FALSE, NoErrorObject) : c \in 0..MaxBlobs }

\* The values a processor may pass to onProgress.
ProgressInputs == { -5, 50, 150 }

\* ------------------------------------------------------------------ state
VARIABLES
    nodes,                      \* useNodesState: the list of nodes
    edges,                      \* useEdgesState: the list of edges
    selectedFiles,              \* useState: the files last selected
    executionState,             \* useState: the run record
    executionAbortController,   \* the ref: 0 (null) or the run whose controller it holds
    aborted,                    \* per run: its AbortController's signal.aborted
    runs,                       \* per call of executeWorkflow: its locals
    sync,                       \* the run whose handler holds the thread, or 0
    cycleLogged,                \* 'Cannot execute workflow with cycles' was logged
    history,                    \* the history recorder's record per run
    historyThrows,              \* which history call throws: "never", "create", "complete"
    mounted,                    \* the component is mounted
    env,                        \* what the user and the processors may do in this behaviour
    sanitizer,                  \* sanitize.ts: a file name, its sanitized form, that form sanitized
    digitalSign,                \* DigitalSignPDFTool: its state, its ref and its calls of handleSign
    removeAnnotations           \* RemoveAnnotationsTool: its state, its ref and its calls of handleProcess

vars == <<nodes, edges, selectedFiles, executionState, executionAbortController,
          aborted, runs, sync, cycleLogged, history, historyThrows, mounted, env,
          sanitizer, digitalSign, removeAnnotations>>

\* The workflow editor, and what is outside it.
editorVars == <<nodes, edges, selectedFiles, executionState, executionAbortController,
                aborted, runs, sync, cycleLogged, history, historyThrows, mounted, env>>
toolVars == <<sanitizer, digitalSign, removeAnnotations>>

\* ------------------------------------------------------------ sanitize.ts
\* A file name is a sequence of characters.
LengthLimit == 200
Whitespace == {" ", "\t", "\n", "\r", "\f"}
ControlCharacters == {"\t", "\n", "\r", "\f"}
PathSeparators == {"/", "\\"}
Problematic == {"<", ">", ":", "\"", "|", "?", "*"}

\* .replace(/\.\./g, ''): the first pair of dots is removed and the search
\* goes on behind it; what the removal brings together is not looked at again.
RECURSIVE RemoveDotDot(_)
RemoveDotDot(s) ==
    LET pairs == { k \in 1..(Len(s) - 1) : s[k] = "." /\ s[k + 1] = "." }
    IN  IF pairs = {} THEN s
        ELSE SubSeq(s, 1, Min(pairs) - 1) \o RemoveDotDot(SubSeq(s, Min(pairs) + 2, Len(s)))

\* .replace(/[chars]/g, '')
Remove(s, chars) == SelectSeq(s, LAMBDA c : c \notin chars)

\* .replace(/^[chars]+/, '')
StripLeading(s, chars) ==
    LET others == { k \in DOMAIN s : s[k] \notin chars }
    IN  IF others = {} THEN <<>> ELSE SubSeq(s, Min(others), Len(s))

\* .replace(/[chars]+$/, '')
StripTrailing(s, chars) ==
    LET others == { k \in DOMAIN s : s[k] \notin chars }
    IN  IF others = {} THEN <<>>
        ELSE SubSeq(s, 1, CHOOSE k \in others : \A j \in others : j <= k)

Trim(s) == StripTrailing(StripLeading(s, Whitespace), Whitespace)

\* s.slice(0, end): a negative end counts from the end of the string.
SliceTo(s, end) ==
    LET last == IF end < 0 THEN Len(s) + end ELSE end
    IN  IF last <= 0 THEN <<>>
        ELSE IF last >= Len(s) THEN s
        ELSE SubSeq(s, 1, last)

\* s.lastIndexOf('.'), from 0, or -1.
LastIndexOfDot(s) ==
    LET dots == { k \in DOMAIN s : s[k] = "." }
    IN  IF dots = {} THEN -1 ELSE (CHOOSE k \in dots : \A j \in dots : j <= k) - 1

ToLowerCase(s) ==
    [k \in DOMAIN s |-> IF s[k] = "A" THEN "a" ELSE IF s[k] = "B" THEN "b" ELSE s[k]]

getExtension(filename) ==
    LET lastDot == LastIndexOfDot(filename)
    IN  IF lastDot = -1 \/ lastDot = 0 THEN <<>>
        ELSE ToLowerCase(SubSeq(filename, lastDot + 2, Len(filename)))

\* The limit of the length: the name is cut and the extension is kept.
LimitLength(sanitized) ==
    IF Len(sanitized) > LengthLimit
    THEN LET ext == getExtension(sanitized)
             name == SliceTo(sanitized, LengthLimit - Len(ext) - 1)
         IN  IF ext # <<>> THEN name \o <<".">> \o ext ELSE name
    ELSE sanitized

sanitizeFilename(filename, fallback) ==
    IF filename = <<>> THEN fallback
    ELSE LET traversal == StripLeading(Remove(RemoveDotDot(filename), PathSeparators), {"."})
             control == Remove(traversal, ControlCharacters)
             problematic == Remove(control, Problematic)
             trimmed == StripTrailing(StripLeading(Trim(problematic), {"."}), {"."})
             sanitized == LimitLength(trimmed)
         IN  IF sanitized = <<>> THEN fallback ELSE sanitized

\* The default fallback, 'download'.
Fallback == <<"d", "o", "w", "n", "l", "o", "a", "d">>

\* The file names: the short ones over a few characters, and long ones made of
\* a name, a dot and an extension.
Characters == {".", "/", "<", " ", "a"}
ShortNames == UNION { [1..n -> Characters] : n \in 0..MaxLen }
Repeat(c, n) == [k \in 1..n |-> c]
LongNames ==
    { Repeat("a", n) \o <<".">> \o Repeat("B", m) :
        n \in {1, LengthLimit},
        m \in {0, 1, LengthLimit - 2, LengthLimit - 1, LengthLimit, LengthLimit + 1} }

NoName == [filename |-> <<>>, result |-> None, again |-> None]

\* Nothing is going on outside the workflow editor.
ToolsIdle ==
    /\ sanitizer = NoName
    /\ digitalSign = <<>>
    /\ removeAnnotations = <<>>

\* The environment of a behaviour: the results processors may return, the
\* values they may report as progress, the file sets the user may run a
\* workflow on, those the user may select without running, and the number of
\* calls of executeWorkflow.
Env(results, progress, fileSets, selectable, maxRuns) ==
    [results |-> results, progress |-> progress, fileSets |-> fileSets,
     selectable |-> selectable, maxRuns |-> maxRuns]

\* The locals of one call of executeWorkflow.  nodes and edges are those of
\* the callback's closure.  The last five fields are the call's record, kept
\* to state properties: the processor calls made (node, files, result), how
\* the call ended, the failed node a retry started it from, the operations
\* that aborted its controller and where it was when first aborted.
UnusedRun ==
    [pc |-> "unused", inputFiles |-> <<>>, nodes |-> <<>>, edges |-> <<>>,
     executionOrder |-> <<>>, i |-> 0,
     nodeOutputs |-> [n \in NodeIds |-> None], localExecutedNodes |-> <<>>,
     executionRecord |-> FALSE, filesToProcess |-> <<>>,
     calls |-> <<>>, outcome |-> "none", retryFrom |-> 0,
     abortedBy |-> {}, abortedAt |-> "none", inFlight |-> {}]

NoRecord == [status |-> "none", executedCount |-> 0, error |-> None, failedNodeId |-> 0, updates |-> 0]

\* The part of the state a stretch of run r works on.
Store(r) ==
    [nodes |-> nodes, executionState |-> executionState,
     ctl |-> executionAbortController, history |-> history[r], run |-> runs[r],
     throws |-> historyThrows]

Commit(S, r) ==
    /\ nodes' = S.nodes
    /\ executionState' = S.executionState
    /\ executionAbortController' = S.ctl
    /\ history' = [history EXCEPT ![r] = S.history]
    /\ runs' = [runs EXCEPT ![r] = S.run]

Label(n) == "label"
CancelError == [message |-> <<"Execution", "cancelled by user">>, nodeId |-> 0, code |-> None]
NoInputNodesError == [message |-> <<"No input nodes found in workflow. Cannot execute.">>, nodeId |-> 0, code |-> None]

\* completeExecutionRecord, unless the recorder throws.
completeExecutionRecord(rec, status, count, message, nodeId) ==
    [rec EXCEPT !.status = status, !.executedCount = count, !.error = message,
                !.failedNodeId = nodeId, !.updates = @ + 1]

\* The exception of the recorder is not caught: the run ends in error.
RecordCompletion_Uncaught(S, status, count, message, nodeId) ==
    IF S.run.executionRecord /\ S.throws = "complete"
    THEN [S EXCEPT !.executionState.status = "error"]
    ELSE IF S.run.executionRecord
    THEN [S EXCEPT !.history = completeExecutionRecord(@, status, count, message, nodeId)]
    ELSE S

\* The history record of the run, if there is one, is completed inside a
\* try/catch: an exception of the recorder is logged and swallowed.
RecordCompletion(S, status, count, message, nodeId) ==
    IF S.run.executionRecord /\ S.throws # "complete"
    THEN [S EXCEPT !.history = completeExecutionRecord(@, status, count, message, nodeId)]
    ELSE S

IsCancelled(errorMessage) == Includes(errorMessage, "cancelled by user")

\* The catch block of executeWorkflow.
Catch(S, error) ==
    LET errorMessage == error.message
        isCancelled == IsCancelled(errorMessage)
        prev == S.executionState
        failedNodeId == IF error.nodeId # 0 THEN error.nodeId ELSE prev.currentNodeId
        successfulCount == Len(prev.executedNodes)
        failedNodeName == IF failedNodeId \in Range(S.run.nodes)
                          THEN Label(failedNodeId) ELSE "Unknown node"
        userMessage == IF isCancelled THEN <<"Workflow execution was cancelled">>
                       ELSE <<"Workflow failed at", failedNodeName>> \o errorMessage
        MarkFailed(node) ==
            IF node.id = failedNodeId /\ node.status # "error"
            THEN [node EXCEPT !.status = "error",
                              !.error = IF IsSome(node.error) THEN node.error
                                        ELSE Some(errorMessage)]
            ELSE node
        stated ==
            [S EXCEPT
               !.executionState =
                   [prev EXCEPT !.status = IF isCancelled THEN "idle" ELSE "error",
                                !.currentNodeId = 0,
                                !.endTime = TRUE,
                                !.error = IF isCancelled THEN None
                                          ELSE Some([nodeId |-> failedNodeId,
                                                     message |-> userMessage])]]
        recorded ==
            RecordCompletion(stated,
                IF isCancelled THEN "cancelled" ELSE "failed",
                successfulCount,
                IF isCancelled THEN None ELSE Some(userMessage),
                IF isCancelled THEN 0 ELSE failedNodeId)
    IN  [recorded EXCEPT
           !.nodes =
               IF failedNodeId # 0 /\ ~isCancelled
               THEN [k \in DOMAIN recorded.nodes |-> MarkFailed(recorded.nodes[k])]
               ELSE recorded.nodes,
           !.run.outcome = IF isCancelled THEN "cancelled" ELSE "error"]

\* The controller is left in place.
Finally_KeepsController(S) == [S EXCEPT !.run.pc = "done"]

\* The finally block: the shared controller is cleared.
Finally(S) == [S EXCEPT !.ctl = 0, !.run.pc = "done"]

\* No fallback to the user's files.
FilesToProcess_NoFallback(nodeInputFiles, inputFiles) == nodeInputFiles

\* The user's files are always taken.
FilesToProcess_AlwaysInput(nodeInputFiles, inputFiles) == inputFiles

\* ----------------------------------------------- one node of the run loop
\* nodeInputFiles.length > 0 ? nodeInputFiles : inputFiles
FilesToProcess(nodeInputFiles, inputFiles) ==
    IF Len(nodeInputFiles) > 0 THEN nodeInputFiles ELSE inputFiles

\* The pass-through drops the last file.
PassThrough_DropsLast(filesToProcess) ==
    [k \in 1..(Len(filesToProcess) - 1) |->
        OutputFile(filesToProcess[k].blob, filesToProcess[k].filename)]

\* The pass-through of the input files of a processor that gave no result: a
\* File is wrapped with its own name, a WorkflowOutputFile is passed as it is.
PassThrough(filesToProcess) ==
    [k \in DOMAIN filesToProcess |->
        IF filesToProcess[k].kind = "File"
        THEN OutputFile(filesToProcess[k].blob, filesToProcess[k].filename)
        ELSE filesToProcess[k]]

\* The tagged outputs recorded for a successful result of node nodeId in run r.
NormaliseOutputs(result, r, nodeId, filesToProcess) ==
    IF result.result = "array"
    THEN [k \in 1..result.count |->
             OutputFile(Payload(r, nodeId, k),
                        Filename(IF result.filename THEN "given" ELSE "label", nodeId,
                                 IF result.count > 1 THEN k ELSE 0))]
    ELSE IF result.result = "blob"
    THEN << OutputFile(Payload(r, nodeId, 1),
                       Filename(IF result.filename THEN "given" ELSE "label", nodeId, 0)) >>
    ELSE PassThrough(filesToProcess)

ErrorMessage(result) ==
    IF IsSome(result.error.message) THEN Get(result.error.message)
    ELSE <<"Processing failed">>

\* The diagnostic stored on the failing node.
FullErrorMessage(result) ==
    (IF IsSome(result.error.code) THEN <<"[", Get(result.error.code), "]">> ELSE <<>>)
    \o ErrorMessage(result)
    \o (IF IsSome(result.error.details)
        THEN <<"Details:", Get(result.error.details)>> ELSE <<>>)
    \o (IF IsSome(result.error.suggestedAction)
        THEN <<"Suggested Action:", Get(result.error.suggestedAction)>> ELSE <<>>)

\* The error thrown for a failed node.
NodeError(result, nodeId) ==
    [message |-> <<"Node", Label(nodeId), "failed:">> \o ErrorMessage(result),
     nodeId |-> nodeId, code |-> result.error.code]

\* Only the outputs of the first node are collected.
ConcatOutputs_FirstOnly(ids, nodeOutputs) ==
    IF ids = <<>> \/ ~IsSome(nodeOutputs[Head(ids)]) THEN <<>>
    ELSE Get(nodeOutputs[Head(ids)])

\* The outputs recorded for the nodes ids, one node after the other (those of
\* the first half of ids, then those of the rest).
RECURSIVE ConcatOutputs(_, _)
ConcatOutputs(ids, nodeOutputs) ==
    IF ids = <<>> THEN <<>>
    ELSE IF Len(ids) = 1
    THEN (IF IsSome(nodeOutputs[ids[1]]) THEN Get(nodeOutputs[ids[1]]) ELSE <<>>)
    ELSE LET half == Len(ids) \div 2
         IN  ConcatOutputs(SubSeq(ids, 1, half), nodeOutputs)
                \o ConcatOutputs(SubSeq(ids, half + 1, Len(ids)), nodeOutputs)

\* After the loop: the outputs of the terminal nodes are collected and the run
\* is complete.
Finalize(S) ==
    LET order == S.run.executionOrder
        IsTerminal(id) == \A j \in DOMAIN S.run.edges : S.run.edges[j][1] # id
        terminalNodeIds == SelectSeq(order, IsTerminal)
        outputNodeIds == IF Len(terminalNodeIds) > 0 THEN terminalNodeIds
                         ELSE << order[Len(order)] >>
        finalOutputs == ConcatOutputs(outputNodeIds, S.run.nodeOutputs)
        completed ==
            [S EXCEPT
               !.executionState = [@ EXCEPT !.status = "complete", !.currentNodeId = 0,
                                            !.progress = 100, !.endTime = TRUE,
                                            !.outputFiles = Some(finalOutputs)]]
    IN  [RecordCompletion(completed, "completed", Len(order), None, 0)
            EXCEPT !.run.outcome = "complete"]

\* The order is walked from its end.
NodeAt_Reversed(executionOrder, i) == executionOrder[Len(executionOrder) - i]

\* The node of loop iteration i (i counts from 0).
NodeAt(executionOrder, i) == executionOrder[i + 1]

\* The head of the loop: the end of the loop, the abort check, or the awaited
\* lookup of the next node.
LoopTop(S, r) ==
    IF S.run.i >= Len(S.run.executionOrder) THEN Finally(Finalize(S))
    ELSE IF aborted[r] THEN Finally(Catch(S, CancelError))
    ELSE [S EXCEPT !.run.pc = "lookup"]

\* The processor is called but not awaited: the loop goes on at once.
AfterLookup_NoAwait(S, r) ==
    LET nodeId == NodeAt(S.run.executionOrder, S.run.i)
    IN  LoopTop(
          [S EXCEPT
             !.nodes = [k \in DOMAIN S.nodes |->
                           IF S.nodes[k].id = nodeId
                           THEN [S.nodes[k] EXCEPT !.status = "processing", !.progress = 0]
                           ELSE S.nodes[k]],
             !.run.calls = Append(@, [node |-> nodeId, files |-> S.run.inputFiles,
                                      result |-> None]),
             !.run.i = @ + 1],
          r)

\* From the resolved lookup of the node to the call of its processor.
AfterLookup(S, r) ==
    LET order == S.run.executionOrder
        nodeId == NodeAt(order, S.run.i)
        nodeInputFiles == collectInputFiles(nodeId, S.run.nodes, S.run.edges, S.run.nodeOutputs)
        filesToProcess == FilesToProcess(nodeInputFiles, S.run.inputFiles)
    IN  IF nodeId \notin Range(Ids(S.nodes))
        THEN LoopTop([S EXCEPT !.run.i = @ + 1], r)
        ELSE [S EXCEPT
                !.executionState = [@ EXCEPT !.currentNodeId = nodeId,
                                             !.progress = RoundPercent(S.run.i, Len(order))],
                !.nodes = [k \in DOMAIN S.nodes |->
                              IF S.nodes[k].id = nodeId
                              THEN [S.nodes[k] EXCEPT !.status = "processing", !.progress = 0]
                              ELSE S.nodes[k]],
                !.run.filesToProcess = filesToProcess,
                !.run.calls = Append(@, [node |-> nodeId, files |-> filesToProcess,
                                         result |-> None]),
                !.run.pc = "exec"]

\* A failed result is recorded as an empty output before the error is thrown.
AfterFailure_RecordsOutput(S, result, nodeId) ==
    Finally(Catch(
        [S EXCEPT !.run.nodeOutputs = [@ EXCEPT ![nodeId] = Some(<<>>)],
                  !.nodes = [k \in DOMAIN S.nodes |->
                                IF S.nodes[k].id = nodeId
                                THEN [S.nodes[k] EXCEPT !.status = "error",
                                                        !.error = Some(FullErrorMessage(result)),
                                                        !.progress = 0]
                                ELSE S.nodes[k]]],
        NodeError(result, nodeId)))

\* A failed result: the node is marked and the error is thrown.
AfterFailure(S, result, nodeId) ==
    Finally(Catch(
        [S EXCEPT !.nodes = [k \in DOMAIN S.nodes |->
                                IF S.nodes[k].id = nodeId
                                THEN [S.nodes[k] EXCEPT !.status = "error",
                                                        !.error = Some(FullErrorMessage(result)),
                                                        !.progress = 0]
                                ELSE S.nodes[k]]],
        NodeError(result, nodeId)))

\* A successful result: the outputs are recorded and the loop goes on.
AfterSuccess(S, r, result, nodeId) ==
    LET outputs == NormaliseOutputs(result, r, nodeId, S.run.filesToProcess)
        executed == Append(S.run.localExecutedNodes, nodeId)
        NotThis(id) == id # nodeId
    IN  LoopTop(
          [S EXCEPT
             !.run.nodeOutputs = [@ EXCEPT ![nodeId] = Some(outputs)],
             !.run.localExecutedNodes = executed,
             !.run.i = @ + 1,
             !.nodes = [k \in DOMAIN S.nodes |->
                           IF S.nodes[k].id = nodeId
                           THEN [S.nodes[k] EXCEPT !.status = "complete", !.progress = 100,
                                                   !.outputFiles = Some(outputs)]
                           ELSE S.nodes[k]],
             !.executionState = [@ EXCEPT !.executedNodes = executed,
                                          !.pendingNodes = SelectSeq(@, NotThis)]],
          r)

\* From the return of executeNode to the next await or the end of the run.
AfterReturn(S, r, result) ==
    LET nodeId == NodeAt(S.run.executionOrder, S.run.i)
        returned == [S EXCEPT !.run.calls[Len(S.run.calls)].result = Some(result)]
    IN  IF aborted[r] THEN Finally(Catch(returned, CancelError))
        ELSE IF ~result.success THEN AfterFailure(returned, result, nodeId)
        ELSE AfterSuccess(returned, r, result, nodeId)

\* ---------------------------------------------------------------- actions
InitState ==
    /\ \E n \in 0..MaxNodes : \E es \in EdgeLists(n) :
         /\ nodes = [k \in 1..n |-> NewNode(k)]
         /\ edges = es
    /\ selectedFiles = <<>>
    /\ executionState = IdleState
    /\ executionAbortController = 0
    /\ aborted = [r \in RunIds |-> FALSE]
    /\ runs = [r \in RunIds |-> UnusedRun]
    /\ sync = 0
    /\ cycleLogged = FALSE
    /\ history = [r \in RunIds |-> NoRecord]
    /\ mounted = TRUE
    /\ ToolsIdle

\* The controller under every user operation: processors fail, throw or give
\* one blob.
ControlResults ==
    { res \in ProcessorResults :
        \/ ~res.success /\ res.error \in { e \in FailErrors : ~IsSome(e.code) }
        \/ res.result = "blob" /\ ~res.filename }

\* The largest graphs are run once, the smaller ones MaxRuns times.
Init ==
    /\ InitState
    /\ env = Env(ControlResults, {50}, { fs \in FileSets : Len(fs) = 1 },
                 { fs \in FileSets : Len(fs) <= 1 },
                 IF Len(nodes) < MaxNodes THEN MaxRuns ELSE MaxRuns - 1)
    /\ historyThrows = "never"

\* One run on any graph, with every result and every file set, and no other
\* user operation.
InitData ==
    /\ InitState
    /\ env = Env(ProcessorResults, {}, FileSets, {}, 1)
    /\ historyThrows = "never"

FreeRuns == { r \in 1..env.maxRuns : runs[r].pc = "unused" }

\* A controller is created although the graph has a cycle.
RejectCycle_CreatesController ==
    /\ cycleLogged' = TRUE
    /\ executionAbortController' = Min(FreeRuns)
    /\ UNCHANGED <<executionState, aborted, runs, sync, history>>

\* executeWorkflow on a graph with a cycle: the error is logged and the call
\* returns.
RejectCycle ==
    /\ cycleLogged' = TRUE
    /\ UNCHANGED <<executionState, executionAbortController, aborted, runs, sync, history>>

\* executeWorkflow up to its first flushSync: the pre-flight, the controller,
\* the history record and the running state.  nodes is left to the caller.
OpenRun(r, inputFiles, retryFrom) ==
    LET executionOrder == topologicalSort(Ids(nodes), edges)
        created == historyThrows # "create"
    IN  /\ selectedFiles' = inputFiles
        /\ IF ~IsSome(executionOrder)
           THEN RejectCycle
           ELSE /\ cycleLogged' = cycleLogged
                /\ executionAbortController' = r
                /\ aborted' = [aborted EXCEPT ![r] = FALSE]
                /\ history' = IF created
                              THEN [history EXCEPT ![r] = [NoRecord EXCEPT !.status = "running"]]
                              ELSE history
                /\ executionState' =
                       [IdleState EXCEPT !.status = "running",
                                         !.pendingNodes = Get(executionOrder),
                                         !.startTime = TRUE]
                /\ runs' = [runs EXCEPT ![r] =
                               [UnusedRun EXCEPT !.pc = "opened",
                                                 !.inputFiles = inputFiles,
                                                 !.nodes = Ids(nodes),
                                                 !.edges = edges,
                                                 !.executionOrder = Get(executionOrder),
                                                 !.nodeOutputs =
                                                     [n \in NodeIds \cup Range(Get(executionOrder))
                                                        |-> None],
                                                 !.executionRecord = created,
                                                 !.retryFrom = retryFrom,
                                                 !.inFlight =
                                                     {q \in RunIds : runs[q].pc = "exec"}]]
                /\ sync' = r

\* The user starts a run.
ExecuteWorkflow(inputFiles) ==
    /\ mounted /\ sync = 0 /\ FreeRuns # {}
    /\ OpenRun(Min(FreeRuns), inputFiles, 0)
    /\ UNCHANGED <<nodes, edges, historyThrows, mounted, env, toolVars>>

\* executeWorkflow: all node statuses are reset (second flushSync).
ResetNodes(r) ==
    /\ sync = r /\ runs[r].pc = "opened"
    /\ nodes' = [k \in DOMAIN nodes |->
                    [nodes[k] EXCEPT !.status = "idle", !.progress = 0, !.error = None]]
    /\ runs' = [runs EXCEPT ![r].pc = "reset"]
    /\ UNCHANGED <<edges, selectedFiles, executionState, executionAbortController,
                   aborted, sync, history, cycleLogged, historyThrows, mounted, env, toolVars>>

\* The input files are dealt out: each input node gets the first file only.
AssignInputFiles_Partition(S, inputNodes) ==
    [S EXCEPT !.nodes = [k \in DOMAIN S.nodes |->
                            IF S.nodes[k].id \in Range(inputNodes)
                            THEN [S.nodes[k] EXCEPT
                                     !.inputFiles = Some(SelectSeq(S.run.inputFiles,
                                                         LAMBDA f : f = S.run.inputFiles[1]))]
                            ELSE S.nodes[k]]]

\* The input files are assigned to every input node.
AssignInputFiles(S, inputNodes) ==
    [S EXCEPT !.nodes = [k \in DOMAIN S.nodes |->
                            IF S.nodes[k].id \in Range(inputNodes)
                            THEN [S.nodes[k] EXCEPT !.inputFiles = Some(S.run.inputFiles)]
                            ELSE S.nodes[k]]]

\* From the try to the first await of the loop: the input nodes are found
\* and given the input files.
AfterReset(S, r) ==
    LET inputNodes == findInputNodes(S.run.nodes, S.run.edges)
    IN  IF Len(inputNodes) = 0
        THEN Finally(Catch(S, NoInputNodesError))
        ELSE LoopTop(AssignInputFiles(S, inputNodes), r)

\* executeWorkflow from the try to the first await of the loop.
StartLoop(r) ==
    /\ sync = r /\ runs[r].pc = "reset"
    /\ Commit(AfterReset(Store(r), r), r)
    /\ sync' = 0
    /\ UNCHANGED <<edges, selectedFiles, aborted, cycleLogged, historyThrows, mounted, env, toolVars>>

\* The awaited lookup of the next node resolves.
LookupResolve(r) ==
    /\ sync = 0 /\ runs[r].pc = "lookup"
    /\ Commit(AfterLookup(Store(r), r), r)
    /\ UNCHANGED <<edges, selectedFiles, aborted, sync, cycleLogged, historyThrows, mounted, env, toolVars>>

\* The processor in flight reports progress.
OnProgress(r, progress) ==
    /\ sync = 0 /\ runs[r].pc = "exec"
    /\ LET nodeId == NodeAt(runs[r].executionOrder, runs[r].i)
       IN  nodes' = [k \in DOMAIN nodes |->
                        IF nodes[k].id = nodeId
                        THEN [nodes[k] EXCEPT !.progress = MathMin(progress, 100)]
                        ELSE nodes[k]]
    /\ UNCHANGED <<edges, selectedFiles, executionState, executionAbortController,
                   aborted, runs, sync, history, cycleLogged, historyThrows, mounted, env, toolVars>>

\* The processor in flight returns (or throws).
ProcessorReturn(r, result) ==
    /\ sync = 0 /\ runs[r].pc = "exec"
    /\ Commit(AfterReturn(Store(r), r, result), r)
    /\ UNCHANGED <<edges, selectedFiles, aborted, sync, cycleLogged, historyThrows, mounted, env, toolVars>>

\* controller.abort() on the shared controller, when there is one.
Abort == IF executionAbortController # 0
         THEN [aborted EXCEPT ![executionAbortController] = TRUE]
         ELSE aborted

\* The aborted run notes the operation: by names it.
NoteAbort(by) ==
    [r \in RunIds |->
        IF r = executionAbortController
        THEN [runs[r] EXCEPT !.abortedBy = @ \cup {by},
                             !.abortedAt = IF aborted[r] THEN @ ELSE runs[r].pc]
        ELSE runs[r]]

StopNode(node) ==
    [node EXCEPT !.status = IF node.status = "processing" THEN "idle" ELSE node.status,
                 !.progress = IF node.status = "processing" THEN 0 ELSE node.progress]

stopExecution ==
    /\ mounted /\ sync = 0
    /\ aborted' = Abort
    /\ executionState' = [executionState EXCEPT !.status = "idle", !.currentNodeId = 0,
                                                !.endTime = TRUE]
    /\ nodes' = [k \in DOMAIN nodes |-> StopNode(nodes[k])]
    /\ runs' = NoteAbort("stop")
    /\ UNCHANGED <<edges, selectedFiles, executionAbortController, sync,
                   history, cycleLogged, historyThrows, mounted, env, toolVars>>

ClearNode(node) ==
    [node EXCEPT !.status = "idle", !.progress = 0, !.error = None,
                 !.outputFiles = None, !.inputFiles = None]

clearWorkflowState ==
    /\ mounted /\ sync = 0
    /\ aborted' = Abort
    /\ executionState' = IdleState
    /\ nodes' = [k \in DOMAIN nodes |-> ClearNode(nodes[k])]
    /\ runs' = NoteAbort("clear")
    /\ UNCHANGED <<edges, selectedFiles, executionAbortController, sync,
                   history, cycleLogged, historyThrows, mounted, env, toolVars>>

\* The whole graph is cleared; the running execution is not aborted.
clearWorkflow ==
    /\ mounted /\ sync = 0
    /\ nodes' = <<>>
    /\ edges' = <<>>
    /\ executionState' = IdleState
    /\ UNCHANGED <<selectedFiles, executionAbortController, aborted, runs, sync,
                   history, cycleLogged, historyThrows, mounted, env, toolVars>>

\* The cleanup of the component's unmount effect.
Unmount ==
    /\ mounted /\ sync = 0
    /\ aborted' = Abort
    /\ mounted' = FALSE
    /\ runs' = NoteAbort("unmount")
    /\ UNCHANGED <<nodes, edges, selectedFiles, executionState,
                   executionAbortController, sync, history, cycleLogged, historyThrows, env, toolVars>>

handleFilesSelected(files) ==
    /\ mounted /\ sync = 0
    /\ selectedFiles' = files
    /\ UNCHANGED <<nodes, edges, executionState, executionAbortController, aborted,
                   runs, sync, history, cycleLogged, historyThrows, mounted, env, toolVars>>

\* Only the nodes to retry are kept.
RetryNodes_KeepsRetried(nds, nodesToRetry) ==
    LET Retried(node) == node.id \in Range(nodesToRetry)
        kept == SelectSeq(nds, Retried)
    IN  [k \in DOMAIN kept |->
            [kept[k] EXCEPT !.status = "idle", !.error = None, !.progress = 0]]

\* The nodes from the failed node onwards are reset.
RetryNodes(nds, nodesToRetry) ==
    [k \in DOMAIN nds |->
        IF nds[k].id \in Range(nodesToRetry)
        THEN [nds[k] EXCEPT !.status = "idle", !.error = None, !.progress = 0]
        ELSE nds[k]]

retryFromFailedNode ==
    /\ mounted /\ sync = 0
    /\ executionState.status = "error"
    /\ IsSome(executionState.error) /\ Get(executionState.error).nodeId # 0
    /\ LET failedNodeId == Get(executionState.error).nodeId
           executionOrder == topologicalSort(Ids(nodes), edges)
           failedIndex == IndexOf(Get(executionOrder), failedNodeId)
           nodesToRetry == Slice(Get(executionOrder), failedIndex)
       IN  /\ IsSome(executionOrder)
           /\ failedIndex # 0
           /\ Len(selectedFiles) > 0 => FreeRuns # {}
           /\ nodes' = RetryNodes(nodes, nodesToRetry)
           /\ IF Len(selectedFiles) > 0
              THEN OpenRun(Min(FreeRuns), selectedFiles, failedNodeId)
              ELSE /\ executionState' = [executionState EXCEPT !.status = "idle",
                                                               !.error = None]
                   /\ UNCHANGED <<selectedFiles, executionAbortController, aborted,
                                  runs, sync, cycleLogged, history>>
    /\ UNCHANGED <<edges, historyThrows, mounted, env, toolVars>>

Next ==
    \/ \E files \in env.fileSets : ExecuteWorkflow(files)
    \/ \E r \in RunIds : ResetNodes(r)
    \/ \E r \in RunIds : StartLoop(r)
    \/ \E r \in RunIds : LookupResolve(r)
    \/ \E r \in RunIds : \E p \in env.progress : OnProgress(r, p)
    \/ \E r \in RunIds : \E result \in env.results : ProcessorReturn(r, result)
    \/ stopExecution
    \/ clearWorkflowState
    \/ clearWorkflow
    \/ retryFromFailedNode

Spec == Init /\ [][Next]_vars

NextData ==
    \/ \E files \in env.fileSets : ExecuteWorkflow(files)
    \/ \E r \in RunIds : ResetNodes(r)
    \/ \E r \in RunIds : StartLoop(r)
    \/ \E r \in RunIds : LookupResolve(r)
    \/ \E r \in RunIds : \E result \in env.results : ProcessorReturn(r, result)

SpecData == InitData /\ [][NextData]_vars

\* The controller with the unmount of the component and the selection of
\* files without running, one run per graph.
InitUser ==
    /\ InitState
    /\ env = Env(ControlResults, {50}, { fs \in FileSets : Len(fs) = 1 },
                 { fs \in FileSets : Len(fs) <= 1 }, 1)
    /\ historyThrows = "never"

NextUser ==
    \/ Next
    \/ Unmount
    \/ \E files \in env.selectable : handleFilesSelected(files)

SpecUser == InitUser /\ [][NextUser]_vars

\* A run and its retry, on no file or one file, with the selection of files
\* in between.  The largest graphs are run once.
InitRetry ==
    /\ InitState
    /\ env = Env(ControlResults, {}, { fs \in FileSets : Len(fs) <= 1 }, FileSets,
                 IF Len(nodes) < MaxNodes THEN MaxRuns ELSE MaxRuns - 1)
    /\ historyThrows = "never"

NextRetry ==
    \/ NextData
    \/ retryFromFailedNode
    \/ \E files \in env.selectable : handleFilesSelected(files)

SpecRetry == InitRetry /\ [][NextRetry]_vars

\* One run of a short and of a long workflow of nodes without edges, on one
\* file.
InitLong ==
    /\ \E n \in {1, LongOrder} : nodes = [k \in 1..n |-> NewNode(k)]
    /\ edges = <<>>
    /\ selectedFiles = <<>>
    /\ executionState = IdleState
    /\ executionAbortController = 0
    /\ aborted = [r \in RunIds |-> FALSE]
    /\ runs = [r \in RunIds |-> UnusedRun]
    /\ sync = 0
    /\ cycleLogged = FALSE
    /\ history = [r \in RunIds |-> NoRecord]
    /\ mounted = TRUE
    /\ ToolsIdle
    /\ env = Env(ControlResults, {}, { fs \in FileSets : Len(fs) = 1 }, {}, 1)
    /\ historyThrows = "never"

SpecLong == InitLong /\ [][NextData]_vars

\* One run on one file whose processors report any progress value.
InitProgress ==
    /\ InitState
    /\ env = Env(ControlResults, ProgressInputs, { fs \in FileSets : Len(fs) = 1 }, {}, 1)
    /\ historyThrows = "never"

NextProgress ==
    \/ NextData
    \/ \E r \in RunIds : \E p \in env.progress : OnProgress(r, p)

SpecProgress == InitProgress /\ [][NextProgress]_vars

\* The workflow editor with no graph and nothing to do.
EditorIdle ==
    /\ nodes = <<>> /\ edges = <<>>
    /\ selectedFiles = <<>>
    /\ executionState = IdleState
    /\ executionAbortController = 0
    /\ aborted = [r \in RunIds |-> FALSE]
    /\ runs = [r \in RunIds |-> UnusedRun]
    /\ sync = 0
    /\ cycleLogged = FALSE
    /\ history = [r \in RunIds |-> NoRecord]
    /\ mounted = TRUE
    /\ env = Env({}, {}, {}, {}, 0)
    /\ historyThrows = "never"

\* A file name is sanitized, and the result is sanitized again.
InitSanitize ==
    /\ EditorIdle
    /\ \E filename \in ShortNames \cup LongNames :
         sanitizer = [NoName EXCEPT !.filename = filename]
    /\ digitalSign = <<>>
    /\ removeAnnotations = <<>>

Sanitize ==
    /\ sanitizer.result = None
    /\ sanitizer' = [sanitizer EXCEPT
                        !.result = Some(sanitizeFilename(sanitizer.filename, Fallback))]
    /\ UNCHANGED <<editorVars, digitalSign, removeAnnotations>>

SanitizeAgain ==
    /\ sanitizer.result # None /\ sanitizer.again = None
    /\ sanitizer' = [sanitizer EXCEPT
                        !.again = Some(sanitizeFilename(Get(sanitizer.result), Fallback))]
    /\ UNCHANGED <<editorVars, digitalSign, removeAnnotations>>

NextSanitize == Sanitize \/ SanitizeAgain

SpecSanitize == InitSanitize /\ [][NextSanitize]_vars

\* ------------------------------------------------- DigitalSignPDFTool
OpIds == 1..MaxOps

\* A call of a handler: where it is, and whether the user cancelled it.
NoOp == [pc |-> "unused", cancelled |-> FALSE]

\* The calls that are waiting in one of their awaits are noted as cancelled.
CancelOps(ops) ==
    [o \in OpIds |-> IF ops[o].pc \notin {"unused", "done"}
                     THEN [ops[o] EXCEPT !.cancelled = TRUE] ELSE ops[o]]

\* The tool with a PDF and a certificate selected.
SignIdle ==
    [status |-> "idle", progress |-> 0, result |-> None, error |-> None,
     cancelledRef |-> FALSE, ops |-> [o \in OpIds |-> NoOp]]

InitSign ==
    /\ EditorIdle
    /\ sanitizer = NoName
    /\ digitalSign = SignIdle
    /\ removeAnnotations = <<>>

\* handleSign up to its first await (pdfFile.arrayBuffer()).  The button is
\* disabled while the status is processing.
handleSign(o) ==
    /\ digitalSign.status # "processing"
    /\ digitalSign.ops[o].pc = "unused"
    /\ \A q \in OpIds : q < o => digitalSign.ops[q].pc # "unused"
    /\ digitalSign' = [digitalSign EXCEPT !.cancelledRef = FALSE,
                                          !.status = "processing",
                                          !.progress = 20,
                                          !.error = None,
                                          !.result = None,
                                          !.ops[o].pc = "reading"]
    /\ UNCHANGED <<editorVars, sanitizer, removeAnnotations>>

\* The catch block of handleSign.
SignCatch(tool, o) ==
    IF ~tool.cancelledRef
    THEN [tool EXCEPT !.error = Some("message"), !.status = "error", !.ops[o].pc = "done"]
    ELSE [tool EXCEPT !.ops[o].pc = "done"]

\* The check of the ref after an await: a cancelled call sets idle and returns.
SignCancelled(tool, o) == [tool EXCEPT !.status = "idle", !.ops[o].pc = "done"]

\* The PDF has been read (or reading it failed): the ref is checked and the
\* processor module is imported.
ReadReturns(o, ok) ==
    /\ digitalSign.ops[o].pc = "reading"
    /\ digitalSign' =
          IF ~ok THEN SignCatch(digitalSign, o)
          ELSE IF digitalSign.cancelledRef THEN SignCancelled(digitalSign, o)
          ELSE [digitalSign EXCEPT !.progress = 40, !.ops[o].pc = "importing"]
    /\ UNCHANGED <<editorVars, sanitizer, removeAnnotations>>

\* The module is imported (or the import failed): signPdf is called.
ImportReturns(o, ok) ==
    /\ digitalSign.ops[o].pc = "importing"
    /\ digitalSign' =
          IF ~ok THEN SignCatch(digitalSign, o)
          ELSE [digitalSign EXCEPT !.ops[o].pc = "signing"]
    /\ UNCHANGED <<editorVars, sanitizer, removeAnnotations>>

\* signPdf has returned: the ref is checked and the result is set.
SignDone(tool, o) ==
    IF tool.cancelledRef THEN SignCancelled(tool, o)
    ELSE [tool EXCEPT !.progress = 100, !.result = Some(o), !.status = "complete",
                      !.ops[o].pc = "done"]

SignReturns(o, ok) ==
    /\ digitalSign.ops[o].pc = "signing"
    /\ digitalSign' = IF ~ok THEN SignCatch(digitalSign, o) ELSE SignDone(digitalSign, o)
    /\ UNCHANGED <<editorVars, sanitizer, removeAnnotations>>

\* onCancel of the progress display, shown while the status is processing.
DigitalSign_onCancel ==
    /\ digitalSign.status = "processing"
    /\ digitalSign' = [digitalSign EXCEPT !.cancelledRef = TRUE,
                                          !.status = "idle",
                                          !.ops = CancelOps(@)]
    /\ UNCHANGED <<editorVars, sanitizer, removeAnnotations>>

NextSign ==
    \/ \E o \in OpIds : handleSign(o)
    \/ \E o \in OpIds : \E ok \in BOOLEAN : ReadReturns(o, ok)
    \/ \E o \in OpIds : \E ok \in BOOLEAN : ImportReturns(o, ok)
    \/ \E o \in OpIds : \E ok \in BOOLEAN : SignReturns(o, ok)
    \/ DigitalSign_onCancel

SpecSign == InitSign /\ [][NextSign]_vars

\* ---------------------------------------------- RemoveAnnotationsTool
\* The tool with a file selected.
RemoveIdle ==
    [status |-> "idle", progress |-> 0, result |-> None, error |-> None,
     cancelledRef |-> FALSE, ops |-> [o \in OpIds |-> NoOp]]

InitRemove ==
    /\ EditorIdle
    /\ sanitizer = NoName
    /\ digitalSign = <<>>
    /\ removeAnnotations = RemoveIdle

\* handleProcess up to its await of removeAnnotations.  The button is disabled
\* while the status is processing.
handleProcess(o) ==
    /\ removeAnnotations.status # "processing"
    /\ removeAnnotations.ops[o].pc = "unused"
    /\ \A q \in OpIds : q < o => removeAnnotations.ops[q].pc # "unused"
    /\ removeAnnotations' = [removeAnnotations EXCEPT !.cancelledRef = FALSE,
                                                      !.status = "processing",
                                                      !.progress = 0,
                                                      !.error = None,
                                                      !.result = None,
                                                      !.ops[o].pc = "processing"]
    /\ UNCHANGED <<editorVars, sanitizer, digitalSign>>

\* The progress callback of a call in flight.
RemoveProgress(o, prog) ==
    /\ removeAnnotations.ops[o].pc = "processing"
    /\ removeAnnotations' = IF ~removeAnnotations.cancelledRef
                            THEN [removeAnnotations EXCEPT !.progress = prog]
                            ELSE removeAnnotations
    /\ UNCHANGED <<editorVars, sanitizer, digitalSign>>

\* What removeAnnotations can answer.
RemoveOutcomes == {"result", "failure", "throws"}

\* removeAnnotations has returned or thrown.
RemoveDone(tool, o, outcome) ==
    IF outcome = "result"
    THEN [tool EXCEPT !.result = Some(o), !.status = "complete", !.ops[o].pc = "done"]
    ELSE [tool EXCEPT !.error = Some(outcome), !.status = "error", !.ops[o].pc = "done"]

RemoveReturns(o, outcome) ==
    /\ removeAnnotations.ops[o].pc = "processing"
    /\ removeAnnotations' = RemoveDone(removeAnnotations, o, outcome)
    /\ UNCHANGED <<editorVars, sanitizer, digitalSign>>

\* onCancel of the progress display, shown while the status is processing.
RemoveAnnotations_onCancel ==
    /\ removeAnnotations.status = "processing"
    /\ removeAnnotations' = [removeAnnotations EXCEPT !.cancelledRef = TRUE,
                                                      !.status = "idle",
                                                      !.ops = CancelOps(@)]
    /\ UNCHANGED <<editorVars, sanitizer, digitalSign>>

NextRemove ==
    \/ \E o \in OpIds : handleProcess(o)
    \/ \E o \in OpIds : \E prog \in ProgressInputs : RemoveProgress(o, prog)
    \/ \E o \in OpIds : \E outcome \in RemoveOutcomes : RemoveReturns(o, outcome)
    \/ RemoveAnnotations_onCancel

SpecRemove == InitRemove /\ [][NextRemove]_vars

\* One run on one file with every result, stopped or not, where the history
\* recorder works, throws on creating the record or throws on completing it.
HistoryFailures == {"never", "create", "complete"}

InitHistory ==
    /\ InitState
    /\ env = Env(ProcessorResults, {}, { fs \in FileSets : Len(fs) = 1 }, {}, 1)
    /\ historyThrows \in HistoryFailures

NextHistory ==
    \/ NextData
    \/ stopExecution

SpecHistory == InitHistory /\ [][NextHistory]_vars

\* ----------------------------------------------------------- properties
\* Run r is the only call of executeWorkflow so far.
OnlyRun(r) == \A q \in RunIds \ {r} : runs[q].pc = "unused"

\* The graph is the one run r was started on.
SameGraph(r) == Ids(nodes) = runs[r].nodes /\ edges = runs[r].edges

\* The node with this id in a list of nodes.
NodeData(nds, id) == nds[IndexOf(Ids(nds), id)]

CalledNodes(r) == [k \in DOMAIN runs[r].calls |-> runs[r].calls[k].node]

\* The last processor call of run r reported a failure.
LastCallFailed(run) ==
    /\ run.calls # <<>>
    /\ IsSome(run.calls[Len(run.calls)].result)
    /\ ~Get(run.calls[Len(run.calls)].result).success

\* The step in which run r ends.
Ends(r) == runs[r].pc # "done" /\ runs'[r].pc = "done"

\* C1: when the processor of node B reports a failure in a run with no
\* cancellation requested, the run ends with status error and error.nodeId = B,
\* every node completed before B keeps status complete and its recorded
\* outputs, and no processor is invoked for a node after B.
C1_FailureEndsRunInError ==
    [][ \A r \in RunIds :
          ( /\ Ends(r) /\ LastCallFailed(runs'[r])
            /\ OnlyRun(r) /\ SameGraph(r) /\ ~aborted[r] )
          => LET order == runs[r].executionOrder
                 B == order[runs[r].i + 1]
             IN  /\ executionState'.status = "error"
                 /\ IsSome(executionState'.error)
                 /\ Get(executionState'.error).nodeId = B
                 /\ \A k \in 1..runs[r].i :
                      /\ NodeData(nodes', order[k]).status = "complete"
                      /\ NodeData(nodes', order[k]).outputFiles = runs[r].nodeOutputs[order[k]]
                 /\ CalledNodes(r) = SubSeq(order, 1, runs[r].i + 1)
                 /\ runs'[r].calls[Len(runs[r].calls)].node = B ]_vars

\* C2: the run started by retryFromFailedNode after a failure at node B invokes
\* processors only for B and the nodes after B in the scheduled order, and what
\* these receive from a node before B is an output recorded in the failed run.
C2_RetryRunsOnlyFromFailedNode ==
    \A r \in RunIds :
        runs[r].retryFrom # 0 =>
            LET order == runs[r].executionOrder
                b == IndexOf(order, runs[r].retryFrom)
            IN  \A k \in DOMAIN runs[r].calls :
                    /\ IndexOf(order, runs[r].calls[k].node) >= b
                    /\ \A f \in Range(runs[r].calls[k].files) :
                         (f.blob.node # 0 /\ IndexOf(order, f.blob.node) < b)
                             => f.blob.run # r

\* Run r was aborted by stop() only, first while a processor was in flight,
\* and no other run or change of the graph is involved.
StoppedInFlight(r) ==
    /\ runs[r].pc = "exec" /\ runs[r].abortedBy = {"stop"} /\ runs[r].abortedAt = "exec"
    /\ OnlyRun(r) /\ SameGraph(r)

\* C3: when stop() is called while the processor of node B is in flight, then
\* once the run has settled every node completed before B has status complete,
\* B has status idle and progress 0, every node after B has status idle and
\* the run status is idle.
C3_StopInFlightSettles ==
    [][ \A r \in RunIds :
          (Ends(r) /\ StoppedInFlight(r))
          => LET order == runs[r].executionOrder
                 i == runs[r].i
             IN  /\ \A k \in 1..i : NodeData(nodes', order[k]).status = "complete"
                 /\ NodeData(nodes', order[i + 1]).status = "idle"
                 /\ NodeData(nodes', order[i + 1]).progress = 0
                 /\ \A k \in (i + 2)..Len(order) : NodeData(nodes', order[k]).status = "idle"
                 /\ executionState'.status = "idle" ]_vars

\* C4: a run whose cancellation token has been set ends with run status idle
\* and no run-level error, is recorded as cancelled, and its last step gives
\* no node the status error.
C4_CancelledRunEndsIdle ==
    [][ \A r \in RunIds :
          (Ends(r) /\ aborted[r])
          => /\ executionState'.status = "idle"
             /\ executionState'.error = None
             /\ \A k \in DOMAIN nodes' :
                  nodes'[k].status = "error"
                      => /\ nodes'[k].id \in Range(Ids(nodes))
                         /\ NodeData(nodes, nodes'[k].id).status = "error" ]_vars

\* C5: executeWorkflow on a graph with a cycle starts no run: the step leaves
\* the execution state, every node, the abort controller and its signals, the
\* history and the runs (and with them the processor calls) unchanged.
C5_CycleStartsNoRun ==
    [][ ( /\ \E inputFiles \in env.fileSets : ExecuteWorkflow(inputFiles)
          /\ topologicalSort(Ids(nodes), edges) = None )
        => UNCHANGED <<executionState, nodes, executionAbortController, aborted,
                       history, runs>> ]_vars

\* executeWorkflow has been called on a graph with a cycle.
C5_Witness ==
    /\ cycleLogged
    /\ nodes # <<>>
    /\ topologicalSort(Ids(nodes), edges) = None

\* A step of run r1: it resumes after one of its awaits.
Resumes(r1) == runs'[r1].pc # runs[r1].pc \/ runs'[r1].i # runs[r1].i

\* C6: when executeWorkflow has opened run r2 while the processor call of the
\* earlier run r1 was in flight, r1 from then on changes neither the execution
\* state nor any node status and invokes no further processor.
C6_NewRunReplacesEarlier ==
    [][ \A r1, r2 \in RunIds :
          (r1 \in runs[r2].inFlight /\ Resumes(r1))
          => /\ executionState' = executionState
             /\ [k \in DOMAIN nodes' |-> nodes'[k].status] = [k \in DOMAIN nodes |-> nodes[k].status]
             /\ Len(runs'[r1].calls) = Len(runs[r1].calls) ]_vars

\* Sequence s is a prefix of sequence t.
IsPrefix(s, t) == Len(s) <= Len(t) /\ SubSeq(t, 1, Len(s)) = s

SourcesOf(t, es) ==
    LET Into(e) == e[2] = t
        into == SelectSeq(es, Into)
    IN  [k \in DOMAIN into |-> into[k][1]]

\* Run r has passed the assignment of the input files.
Assigned(r) == runs[r].pc \in {"lookup", "exec", "done"}

\* C8: every input node (no incoming edge) of a run on file set F has F, whole
\* and in order, as its inputFiles, and its processor is called with exactly F.
C8_InputNodesGetAllFiles ==
    \A r \in RunIds :
        /\ Assigned(r) =>
             \A n \in Range(findInputNodes(runs[r].nodes, runs[r].edges)) :
                 NodeData(nodes, n).inputFiles = Some(runs[r].inputFiles)
        /\ \A k \in DOMAIN runs[r].calls :
             SourcesOf(runs[r].calls[k].node, runs[r].edges) = <<>>
                 => runs[r].calls[k].files = runs[r].inputFiles

\* Two input nodes have both been called in a run on two files.
C8_Witness ==
    \E r \in RunIds :
        /\ Len(runs[r].inputFiles) = 2
        /\ \E j, k \in DOMAIN runs[r].calls :
             /\ j # k
             /\ SourcesOf(runs[r].calls[j].node, runs[r].edges) = <<>>
             /\ SourcesOf(runs[r].calls[k].node, runs[r].edges) = <<>>

\* The outputs the nodes ids hold in their outputFiles field, one after the
\* other.
RECURSIVE RecordedOutputs(_)
RecordedOutputs(ids) ==
    IF ids = <<>> THEN <<>>
    ELSE (IF IsSome(NodeData(nodes, Head(ids)).outputFiles)
          THEN Get(NodeData(nodes, Head(ids)).outputFiles) ELSE <<>>)
         \o RecordedOutputs(Tail(ids))

\* C9: a node with incoming edges whose sources recorded outputs that are not
\* all empty is called with exactly the outputs recorded for its sources, one
\* source after the other in the order of the edges.
C9_InputIsConcatenationOfSources ==
    \A r \in RunIds :
        \A k \in DOMAIN runs[r].calls :
            LET sources == SourcesOf(runs[r].calls[k].node, runs[r].edges)
            IN  (sources # <<>> /\ RecordedOutputs(sources) # <<>>)
                    => runs[r].calls[k].files = RecordedOutputs(sources)

\* A node with two incoming edges has been called and both its sources had
\* recorded outputs.
C9_Witness ==
    \E r \in RunIds :
        \E k \in DOMAIN runs[r].calls :
            LET sources == SourcesOf(runs[r].calls[k].node, runs[r].edges)
            IN  /\ Len(sources) = 2
                /\ \A j \in DOMAIN sources :
                     /\ IsSome(NodeData(nodes, sources[j]).outputFiles)
                     /\ Get(NodeData(nodes, sources[j]).outputFiles) # <<>>

\* Call k of run r returned success with no result.
PassedThrough(r, k) ==
    /\ IsSome(runs[r].calls[k].result)
    /\ Get(runs[r].calls[k].result).success
    /\ Get(runs[r].calls[k].result).result = "none"

\* Outputs and files are the same files in the same order.
SameFiles(outputs, files) ==
    /\ Len(outputs) = Len(files)
    /\ \A j \in DOMAIN files :
         outputs[j].blob = files[j].blob /\ outputs[j].filename = files[j].filename

\* C10: when a processor returns success with no result, the outputs recorded
\* for the node (in the run's outputs and in the node's outputFiles) are the
\* files it was called with, same files, order and count, and a node whose
\* only incoming edge comes from it is called with exactly those files.
C10_PassThrough ==
    \A r \in RunIds :
        \A k \in DOMAIN runs[r].calls :
            PassedThrough(r, k) =>
                LET n == runs[r].calls[k].node
                    outputs == runs[r].nodeOutputs[n]
                IN  /\ IsSome(outputs)
                    /\ SameFiles(Get(outputs), runs[r].calls[k].files)
                    /\ NodeData(nodes, n).outputFiles = outputs
                    /\ \A m \in DOMAIN runs[r].calls :
                         SourcesOf(runs[r].calls[m].node, runs[r].edges) = <<n>>
                             => SameFiles(runs[r].calls[m].files, runs[r].calls[k].files)

\* A processor called with two files returned success with no result and the
\* node after it has been called.
C10_Witness ==
    \E r \in RunIds :
        \E k, m \in DOMAIN runs[r].calls :
            /\ PassedThrough(r, k)
            /\ Len(runs[r].calls[k].files) = 2
            /\ SourcesOf(runs[r].calls[m].node, runs[r].edges) = <<runs[r].calls[k].node>>

\* The terminal nodes of run r (no outgoing edge), in scheduled order.
TerminalNodes(r) ==
    LET NoOutgoing(n) == \A e \in Range(runs[r].edges) : e[1] # n
    IN  SelectSeq(runs[r].executionOrder, NoOutgoing)

\* The final output files of a completed run r are the recorded outputs of
\* its terminal nodes, one node after the other.
FinalOutputsAreTerminalOutputs(r) ==
    executionState.outputFiles = Some(RecordedOutputs(TerminalNodes(r)))

\* C11: when a run completes, its final output files are exactly the recorded
\* outputs of the terminal nodes in their order, and no file of them is a
\* recorded output of a non-terminal node.
C11_FinalOutputsOfTerminalNodes ==
    \A r \in RunIds :
        runs[r].outcome = "complete" =>
            /\ FinalOutputsAreTerminalOutputs(r)
            /\ \A n \in Range(runs[r].executionOrder) \ Range(TerminalNodes(r)) :
                 Range(Get(executionState.outputFiles)) \cap Range(RecordedOutputs(<<n>>)) = {}

\* C11 as amended: when a run completes, its final output files are exactly
\* the recorded outputs of the terminal nodes in their order; a file of them
\* that a terminal node did not produce is one a terminal node was called
\* with and passed through.
C11_FinalOutputsAmended ==
    \A r \in RunIds :
        runs[r].outcome = "complete" =>
            /\ FinalOutputsAreTerminalOutputs(r)
            /\ \A f \in Range(Get(executionState.outputFiles)) :
                 \/ f.blob.run = r /\ f.blob.node \in Range(TerminalNodes(r))
                 \/ \E k \in DOMAIN runs[r].calls :
                      /\ runs[r].calls[k].node \in Range(TerminalNodes(r))
                      /\ PassedThrough(r, k)
                      /\ \E j \in DOMAIN runs[r].calls[k].files :
                           /\ runs[r].calls[k].files[j].blob = f.blob
                           /\ runs[r].calls[k].files[j].filename = f.filename

\* A run has completed on a graph with two terminal nodes and a non-terminal
\* one, all with recorded outputs.
C11_Witness ==
    \E r \in RunIds :
        /\ runs[r].outcome = "complete"
        /\ Len(TerminalNodes(r)) = 2
        /\ Len(runs[r].executionOrder) = 3
        /\ \A n \in Range(runs[r].executionOrder) : RecordedOutputs(<<n>>) # <<>>

\* The changes of the run status the state machine allows.
AllowedStatusChanges ==
    { <<"idle", "running">>, <<"running", "complete">>, <<"running", "error">>,
      <<"running", "idle">>, <<"complete", "idle">>, <<"error", "idle">> }

\* C12: the run status changes only along idle -> running, running ->
\* complete, running -> error, running -> idle and complete/error -> idle; so
\* complete and error are only entered from running.
C12_StatusChangesAlongStateMachine ==
    [][ \/ executionState'.status = executionState.status
        \/ <<executionState.status, executionState'.status>> \in AllowedStatusChanges ]_vars

\* C13: executeWorkflow on a graph without input nodes never starts a run: the
\* call does not set the run status to running, and no processor is invoked in
\* a run on such a graph.
C13_NoInputNodesNeverStarts ==
    [][ /\ ( /\ \E inputFiles \in env.fileSets : ExecuteWorkflow(inputFiles)
             /\ findInputNodes(Ids(nodes), edges) = <<>>
             /\ executionState.status # "running" )
           => executionState'.status # "running"
        /\ \A r \in RunIds :
             findInputNodes(runs'[r].nodes, runs'[r].edges) = <<>> => runs'[r].calls = <<>> ]_vars

\* What a stretch of a run leaves behind, the history record aside.
RunView(S) ==
    [nodes |-> S.nodes, executionState |-> S.executionState, ctl |-> S.ctl,
     run |-> [S.run EXCEPT !.executionRecord = TRUE]]

\* The store of run r as it is when the recorder fails as h says and the
\* record of the run exists or not.
StoreWith(r, h, rec) == [Store(r) EXCEPT !.throws = h, !.run.executionRecord = rec]

\* C14: a failure of the history recorder never changes the run: from every
\* state of a run, each stretch of executeWorkflow leaves the same nodes, the
\* same execution state (status, outputs), the same controller and the same
\* processor calls whether the recorder works, failed to create the record or
\* fails to complete it.
C14_HistoryFailureChangesNothing ==
    \A r \in RunIds : \A h \in HistoryFailures : \A rec \in BOOLEAN :
        LET A == StoreWith(r, h, rec)
            B == StoreWith(r, "never", TRUE)
        IN  /\ runs[r].pc = "reset" => RunView(AfterReset(A, r)) = RunView(AfterReset(B, r))
            /\ runs[r].pc = "lookup" => RunView(AfterLookup(A, r)) = RunView(AfterLookup(B, r))
            /\ runs[r].pc = "exec" =>
                 \A result \in env.results :
                     RunView(AfterReturn(A, r, result)) = RunView(AfterReturn(B, r, result))

\* A run has completed while the recorder threw on completing its record.
C14_Witness ==
    \E r \in RunIds :
        /\ runs[r].outcome = "complete" /\ runs[r].calls # <<>>
        /\ historyThrows = "complete" /\ runs[r].executionRecord
        /\ history[r].status = "running"

\* C15: in the step in which a started run ends, whatever its outcome, the
\* shared abort controller is cleared.
C15_ControllerClearedAtEnd ==
    [][ \A r \in RunIds : Ends(r) => executionAbortController' = 0 ]_vars

\* A run that called a processor has ended cancelled and the controller is
\* cleared.
C15_Witness ==
    \E r \in RunIds :
        /\ runs[r].pc = "done" /\ runs[r].outcome = "cancelled"
        /\ runs[r].calls # <<>>
        /\ executionAbortController = 0

\* Run r is the only run opened so far, is still active, and the workflow
\* state (clearWorkflowState) or the whole graph (clearWorkflow) has been
\* cleared since it was opened.
ClearedWhileActive(r) ==
    /\ OnlyRun(r) /\ runs[r].pc \notin {"unused", "done"}
    /\ "clear" \in runs[r].abortedBy \/ ~SameGraph(r)

\* C16: once the workflow state or the graph has been cleared while a run is
\* active, the run status stays idle, the executed and pending lists stay
\* empty and there are no output files for as long as no executeWorkflow call
\* follows: the cleared run sets neither complete nor error.
C16_ClearedRunStaysIdle ==
    [][ \A r \in RunIds :
          (ClearedWhileActive(r) /\ \A q \in RunIds \ {r} : runs'[q].pc = "unused")
          => /\ executionState'.status = "idle"
             /\ executionState'.executedNodes = <<>>
             /\ executionState'.pendingNodes = <<>>
             /\ executionState'.outputFiles = None ]_vars

\* C17: during a retry and the run r it starts (no stop or clear in between),
\* every node scheduled before the failed node keeps status complete and the
\* outputs the failed run recorded for it.
C17_RetryKeepsEarlierNodes ==
    \A r \in RunIds :
        (runs[r].retryFrom # 0 /\ runs[r].abortedBy = {} /\ SameGraph(r))
        => LET order == runs[r].executionOrder
               b == IndexOf(order, runs[r].retryFrom)
           IN  \A k \in 1..(b - 1) :
                   /\ NodeData(nodes, order[k]).status = "complete"
                   /\ \A q \in RunIds :
                        q = r - 1 => NodeData(nodes, order[k]).outputFiles
                                         = runs[q].nodeOutputs[order[k]]

\* C18: no processor failure is dropped: when a processor reports a failure,
\* whatever its message, and the run's abort signal is not set, the run ends
\* with status error, an error naming the failing node with a message, and it
\* is not recorded as cancelled.
C18_FailureNeverDropped ==
    [][ \A r \in RunIds :
          (Ends(r) /\ LastCallFailed(runs'[r]) /\ ~aborted[r])
          => /\ executionState'.status = "error"
             /\ IsSome(executionState'.error)
             /\ Get(executionState'.error).nodeId = NodeAt(runs[r].executionOrder, runs[r].i)
             /\ Get(executionState'.error).message # <<>>
             /\ runs'[r].outcome = "error"
             /\ history'[r].status # "cancelled" ]_vars

\* The processor calls of run r that have not returned.
InFlight(r) == { k \in DOMAIN runs[r].calls : ~IsSome(runs[r].calls[k].result) }

\* The runs opened so far.
OpenedRuns == { r \in RunIds : runs[r].pc # "unused" }

\* C19: within one run the processors never execute concurrently: at most one
\* call of a run is in flight, it is the last one made (every earlier call has
\* returned), and with one run opened at most one node has status processing.
C19_OneProcessorAtATime ==
    /\ \A r \in RunIds :
         /\ Cardinality(InFlight(r)) <= 1
         /\ \A k \in InFlight(r) : k = Len(runs[r].calls) /\ runs[r].pc = "exec"
    /\ Cardinality(OpenedRuns) <= 1
         => Cardinality({ k \in DOMAIN nodes : nodes[k].status = "processing" }) <= 1

\* The second processor call of a run is in flight after the first returned.
C19_Witness ==
    \E r \in RunIds :
        /\ Len(runs[r].calls) = 2
        /\ InFlight(r) = {2}
        /\ \E k \in DOMAIN nodes : nodes[k].status = "processing"

\* Every node is as new: idle, progress 0, no error and no output files.
AllNodesReset(nds) ==
    \A k \in DOMAIN nds :
        /\ nds[k].status = "idle" /\ nds[k].progress = 0
        /\ nds[k].error = None /\ nds[k].outputFiles = None

\* The step of run r that resets the nodes, or the one after it that hands
\* out the input files and reaches the lookup of the first node.
StartsRun(r) ==
    /\ runs[r].pc \in {"opened", "reset"}
    /\ runs'[r].pc \in {"reset", "lookup"}

\* C20: at the start of every run, when executeWorkflow has reset the nodes
\* and before it calls the first processor, and after clearWorkflowState,
\* every node has status idle, progress 0, no error and no output files.
C20_NodesResetAtStartAndClear ==
    [][ /\ \A r \in RunIds : StartsRun(r) => AllNodesReset(nodes')
        /\ clearWorkflowState => AllNodesReset(nodes') ]_vars

\* C21: once the abort signal of run r is set, run r marks no node processing
\* and invokes no further processor.
C21_NoDispatchAfterCancel ==
    [][ \A r \in RunIds :
          (aborted[r] /\ Resumes(r))
          => /\ Len(runs'[r].calls) = Len(runs[r].calls)
             /\ \A k \in DOMAIN nodes' :
                  nodes'[k].status = "processing"
                      => k \in DOMAIN nodes /\ nodes[k].status = "processing" ]_vars

\* C22: retryFromFailedNode, called in error state with a failed node
\* recorded, opens a new run of executeWorkflow on the input files the failed
\* run was started with.
C22_RetryUsesOriginalFiles ==
    [][ retryFromFailedNode
        => \A q \in RunIds :
             (runs[q].pc = "done" /\ runs[q].outcome = "error")
             => \E r \in RunIds :
                  /\ runs[r].pc = "unused" /\ runs'[r].pc = "opened"
                  /\ runs'[r].inputFiles = runs[q].inputFiles ]_vars

\* C23: a processor is called with exactly the user's inputFiles when the
\* outputs resolved from the sources of its node are empty (no incoming edge,
\* or only empty outputs upstream), and otherwise with exactly the resolved
\* outputs, none of which is one of the user's files.
C23_FallbackToInputFiles ==
    \A r \in RunIds :
        \A k \in DOMAIN runs[r].calls :
            LET resolved == RecordedOutputs(SourcesOf(runs[r].calls[k].node, runs[r].edges))
                files == runs[r].calls[k].files
            IN  IF resolved = <<>>
                THEN files = runs[r].inputFiles
                ELSE /\ files = resolved
                     /\ \A j \in DOMAIN files : files[j] \notin Range(runs[r].inputFiles)

\* In a run on files, a node whose source recorded an empty output has been
\* called, and so has a node whose source recorded files.
C23_Witness ==
    \E r \in RunIds :
        /\ runs[r].inputFiles # <<>>
        /\ \E k \in DOMAIN runs[r].calls :
             LET sources == SourcesOf(runs[r].calls[k].node, runs[r].edges)
             IN  /\ sources # <<>>
                 /\ \A j \in DOMAIN sources :
                      NodeData(nodes, sources[j]).outputFiles = Some(<<>>)
        /\ \E k \in DOMAIN runs[r].calls :
             RecordedOutputs(SourcesOf(runs[r].calls[k].node, runs[r].edges)) # <<>>

\* C24: the dispatch of the node at position i (from 0) of an order of n nodes
\* sets the progress of the run to round(i / n * 100); the steps of a run never
\* lower the progress, which stays within 0..100 and is 100 exactly when the
\* status is complete.
C24_RunProgress ==
    [][ /\ \A r \in RunIds :
             /\ Len(runs'[r].calls) = Len(runs[r].calls) + 1
                  => executionState'.progress
                         = RoundPercent(runs[r].i, Len(runs[r].executionOrder))
             /\ Resumes(r) => executionState'.progress >= executionState.progress
        /\ executionState'.progress \in 0..100
        /\ executionState'.progress = 100 <=> executionState'.status = "complete" ]_vars

\* C25: the progress of every node is within 0..100 in every state, whatever
\* integers the processors pass to onProgress and whenever they do.
C25_NodeProgressInRange ==
    \A k \in DOMAIN nodes : nodes[k].progress \in 0..100

\* C26: the reset of the nodes at the start of a run is one commit and comes
\* before any dispatch: the reset step leaves every node idle with progress
\* 0, and in the step that marks the first node of a run processing every
\* other node is idle with progress 0.
C26_ResetBeforeFirstDispatch ==
    [][ \A r \in RunIds :
          /\ (runs[r].pc = "opened" /\ runs'[r].pc = "reset")
               => \A k \in DOMAIN nodes' :
                     nodes'[k].status = "idle" /\ nodes'[k].progress = 0
          /\ (runs[r].calls = <<>> /\ Len(runs'[r].calls) = 1)
               => \A k \in DOMAIN nodes' :
                     nodes'[k].id # runs'[r].calls[1].node
                         => nodes'[k].status = "idle" /\ nodes'[k].progress = 0 ]_vars

\* The message carries the code, the details and the suggested action of the
\* failure, where the failure has them.
Carries(message, error) ==
    /\ IsSome(error.code) => Get(error.code) \in Range(message)
    /\ IsSome(error.details) => Get(error.details) \in Range(message)
    /\ IsSome(error.suggestedAction) => Get(error.suggestedAction) \in Range(message)

\* C27: when a run ends on the failure of a processor, the diagnostic built
\* from the message, code, details and suggested action of the failure is the
\* error of the failing node, and the error message of the run record (in the
\* execution state and in the history) carries the same code, details and
\* suggested action.
C27_OneDiagnosticOnNodeAndRecord ==
    [][ \A r \in RunIds :
          (Ends(r) /\ LastCallFailed(runs'[r]) /\ runs'[r].outcome = "error")
          => LET call == runs'[r].calls[Len(runs'[r].calls)]
                 error == Get(call.result).error
             IN  /\ NodeData(nodes', call.node).error = Some(FullErrorMessage(Get(call.result)))
                 /\ IsSome(executionState'.error)
                 /\ Carries(Get(executionState'.error).message, error)
                 /\ IsSome(history'[r].error)
                 /\ Carries(Get(history'[r].error), error) ]_vars

\* The outcome a history record has for the outcome of a run.
RecordStatus(outcome) ==
    CASE outcome = "complete" -> "completed"
      [] outcome = "error" -> "failed"
      [] outcome = "cancelled" -> "cancelled"
      [] OTHER -> "none"

\* The calls of the run that returned success.
Succeeded(run) ==
    { k \in DOMAIN run.calls :
        IsSome(run.calls[k].result) /\ Get(run.calls[k].result).success }

\* C28: a run with a history record has, when it ends, finalised the record
\* exactly once: with the outcome of the run (completed, failed, cancelled),
\* with the number of nodes whose processor succeeded in that run, and with a
\* message and the node of the failed call exactly when the outcome is failed.
C28_RecordFinalisedOnce ==
    [][ \A r \in RunIds :
          (Ends(r) /\ runs'[r].executionRecord)
          => LET run == runs'[r]
                 rec == history'[r]
             IN  /\ rec.updates = 1
                 /\ rec.status = RecordStatus(run.outcome)
                 /\ rec.executedCount = Cardinality(Succeeded(run))
                 /\ IsSome(rec.error) <=> rec.status = "failed"
                 /\ rec.status # "failed" => rec.failedNodeId = 0
                 /\ (rec.status = "failed" /\ LastCallFailed(run))
                        => rec.failedNodeId = run.calls[Len(run.calls)].node ]_vars

\* The nodes that have an entry in the outputs mapping of the run.
Entries(run) == { n \in DOMAIN run.nodeOutputs : IsSome(run.nodeOutputs[n]) }

\* C29: the outputs mapping of a run is empty when the run is opened and only
\* grows: an entry is never changed or removed, an entry is added for a node
\* only in the step in which the call of its processor returns success, and
\* no node is called twice in a run.
C29_OutputsOnlyGrow ==
    [][ \A r \in RunIds :
          /\ (runs[r].pc = "unused" /\ runs'[r].pc # "unused") => Entries(runs'[r]) = {}
          /\ \A n \in Entries(runs[r]) :
                n \in Entries(runs'[r]) /\ runs'[r].nodeOutputs[n] = runs[r].nodeOutputs[n]
          /\ \A n \in Entries(runs'[r]) \ Entries(runs[r]) :
                /\ runs[r].pc = "exec"
                /\ LET call == runs'[r].calls[Len(runs'[r].calls)]
                   IN  call.node = n /\ IsSome(call.result) /\ Get(call.result).success
          /\ \A j, k \in DOMAIN runs'[r].calls :
                runs'[r].calls[j].node = runs'[r].calls[k].node => j = k ]_vars

\* A run has ended with two entries in its outputs mapping.
C29_Witness ==
    \E r \in RunIds :
        /\ runs[r].pc = "done"
        /\ Cardinality(Entries(runs[r])) >= 2
        /\ Len(runs[r].calls) > Cardinality(Entries(runs[r]))

\* The graph: the nodes with their tool and settings, and the edges.
Graph(nds, es) ==
    [nodes |-> [k \in DOMAIN nds |->
                   [id |-> nds[k].id, toolId |-> nds[k].toolId, settings |-> nds[k].settings]],
     edges |-> es]

\* C30: executeWorkflow (with every step of its run), stopExecution,
\* retryFromFailedNode and clearWorkflowState leave the graph as it is: the
\* node ids, the tool and settings of each node and the edge list.
C30_GraphUnchanged ==
    [][ ( \/ \E files \in env.fileSets : ExecuteWorkflow(files)
          \/ \E r \in RunIds : Resumes(r)
          \/ stopExecution
          \/ retryFromFailedNode
          \/ clearWorkflowState )
        => Graph(nodes', edges') = Graph(nodes, edges) ]_vars

\* A run started by a retry on a graph with an edge was aborted by stop and
\* by clearWorkflowState.
C30_Witness ==
    \E r \in RunIds :
        /\ runs[r].retryFrom # 0
        /\ {"stop", "clear"} \subseteq runs[r].abortedBy
        /\ nodes # <<>> /\ edges # <<>>
        /\ runs[r].retryFrom # runs[r].executionOrder[1]

\* Run r is the run in progress: the status is running, the controller is
\* the one of r and r has not ended.
Running(r) ==
    /\ executionState.status = "running"
    /\ executionAbortController = r
    /\ runs[r].pc \notin {"unused", "done"}

\* C31: while a run is in status running, executedNodes is a prefix of its
\* scheduled order, pendingNodes is the rest of the order, and a node is in
\* executedNodes exactly when its status is complete.
C31_ExecutedAndPending ==
    \A r \in RunIds :
        Running(r)
        => /\ IsPrefix(executionState.executedNodes, runs[r].executionOrder)
           /\ executionState.executedNodes \o executionState.pendingNodes
                  = runs[r].executionOrder
           /\ \A k \in DOMAIN nodes :
                 nodes[k].id \in Range(executionState.executedNodes)
                     <=> nodes[k].status = "complete"

\* C32: when a run has set the status complete, every node of its scheduled
\* order was executed: pendingNodes is empty, executedNodes is the order, every
\* node of the graph is complete with progress 100 and currentNodeId is none.
C32_CompleteMeansAllExecuted ==
    [][ \A r \in RunIds :
          (Ends(r) /\ runs'[r].outcome = "complete")
          => /\ executionState'.status = "complete"
             /\ executionState'.pendingNodes = <<>>
             /\ executionState'.executedNodes = runs'[r].executionOrder
             /\ executionState'.currentNodeId = 0
             /\ \A k \in DOMAIN nodes' :
                   nodes'[k].status = "complete" /\ nodes'[k].progress = 100 ]_vars

\* C33: the current node is set only while the status is running: with
\* status idle, complete or error, currentNodeId is none.
C33_CurrentNodeOnlyWhileRunning ==
    executionState.status # "running" => executionState.currentNodeId = 0

\* C34: when a run that was cancelled by stopExecution or clearWorkflowState
\* has settled, with no other run opened, no node has status processing.
C34_NoNodeLeftProcessing ==
    [][ \A r \in RunIds :
          (Ends(r) /\ runs'[r].abortedBy # {} /\ OnlyRun(r))
          => \A k \in DOMAIN nodes' : nodes'[k].status # "processing" ]_vars

\* The run opened last (runs are opened in the order of their numbers).
LatestRun == CHOOSE r \in OpenedRuns : \A q \in OpenedRuns : q <= r

\* C35: while the run opened last has not ended, the shared controller is the
\* one of that run (so that stopExecution aborts it), and the end of an earlier
\* run does not take the status from running to idle.
C35_ControllerOfActiveRun ==
    [][ (OpenedRuns' # {} /\ runs'[LatestRun'].pc # "done")
        => /\ executionAbortController' = LatestRun'
           /\ \A q \in RunIds :
                (Ends(q) /\ q # LatestRun' /\ executionState.status = "running")
                    => executionState'.status # "idle" ]_vars

\* C36: the execution state has an error (failing node id and message)
\* exactly when its status is error, and has output files only when its
\* status is complete.
C36_ErrorAndOutputsMatchStatus ==
    /\ IsSome(executionState.error) <=> executionState.status = "error"
    /\ IsSome(executionState.outputFiles) => executionState.status = "complete"

\* The name has a path separator or two dots in a row.
HasTraversal(name) ==
    \/ \E k \in DOMAIN name : name[k] \in PathSeparators
    \/ \E k \in 1..(Len(name) - 1) : name[k] = "." /\ name[k + 1] = "."

\* C37: the result of sanitizeFilename has no '/', no '\' and no '..', and
\* sanitizing the result again gives the result.
C37_NoTraversalAndIdempotent ==
    /\ IsSome(sanitizer.result) => ~HasTraversal(Get(sanitizer.result))
    /\ IsSome(sanitizer.again) => sanitizer.again = sanitizer.result

\* C38: the result of sanitizeFilename, with a fallback that is not empty, is
\* not empty and has at most 200 characters.
C38_NonEmptyAndAtMostLimit ==
    IsSome(sanitizer.result)
    => /\ Get(sanitizer.result) # <<>>
       /\ Len(Get(sanitizer.result)) <= LengthLimit

\* A step of call o of a tool: the call resumes after one of its awaits.
OpResumes(tool, toolNext, o) ==
    tool.ops[o].pc \notin {"unused", "done"} /\ toolNext.ops[o].pc # tool.ops[o].pc

\* C39: a call of handleSign that the user cancelled sets no result afterwards
\* and moves the status neither to complete nor to error.
C39_CancelledSignSetsNothing ==
    [][ \A o \in OpIds :
          (digitalSign.ops[o].cancelled /\ OpResumes(digitalSign, digitalSign', o))
          => /\ digitalSign'.result = digitalSign.result
             /\ digitalSign'.status \in {"complete", "error"}
                   => digitalSign'.status = digitalSign.status ]_vars

\* C40: when the processor of a call of handleProcess that the user cancelled
\* returns or throws, with no other call started, the status stays idle and no
\* result is set.
C40_CancelledProcessStaysIdle ==
    [][ \A o \in OpIds :
          ( /\ removeAnnotations.ops[o].cancelled
            /\ OpResumes(removeAnnotations, removeAnnotations', o)
            /\ \A q \in OpIds \ {o} : removeAnnotations.ops[q].pc = "unused" )
          => /\ removeAnnotations'.status = "idle"
             /\ removeAnnotations'.result = removeAnnotations.result ]_vars

====
